---- MODULE Spec2Model ----
EXTENDS Integers, Sequences, FiniteSets, TLC

(***************************************************************************)
(* Model of plugin.video.flix: lib/providers.py (the provider broadcast,   *)
(* the replay bookmark kept by check_replay, play) and lib/library.py      *)
(* (the library store and its placeholder files).                          *)
(*                                                                         *)
(* Python strings are sequences of atoms; "@" and "^" are the two          *)
(* separator characters of the bookmark, every other atom stands for a     *)
(* run of ordinary characters.                                             *)
(***************************************************************************)

VARIABLES
    pc,         \* where the current play request is: idle, prompt, searching,
                \* select, resolving, done, raised
    item,       \* the item of the current request
    saving,     \* save_last_result() as read by the wrapper for this request
    providers,  \* get_providers() as read by run_providers_method
    data,       \* listener.data of the broadcast: the replies so far, in arrival order
    clock,      \* time waited by the current listener
    results,    \* play's results (get_providers_results)
    auto,       \* auto_choose_media() as read by play: "unread", "on", "off"
    chosen,     \* index into results of the selected result (0: none)
    resolved,   \* the calls of setResolvedUrl made by this request
    notes,      \* the notifications shown by this request
    dialogs,    \* the dialogs shown by this request
    sent,       \* the provider methods sent by this request
    called,     \* whether the wrapped function was called by this request
    ret,        \* what the wrapper returned
    bookmark,   \* the window properties flix:last_played:<class>
    played,     \* per class: what the play that wrote the bookmark resolved with
    rows,       \* the rows (id, type, path) of the table "library"
    mfiles,     \* Movies/<name>/<name>.strm: the movie id in its url (0: no file)
    sfiles,     \* TV Shows/<name>/<name> SxxEyy.strm: the show id in its url
    tmdb,       \* per show, whether its latest episode is listed and aired
    last        \* the last library call: its arguments, result and effects

pvars == <<pc, item, saving, providers, data, clock, results, auto, chosen, resolved,
           notes, dialogs, sent, called, ret, bookmark, played>>

lvars == <<rows, mfiles, sfiles, tmdb, last>>

vars == <<pvars, lvars>>

----------------------------------------------------------------------------
(* Python values that a path can be: None, a str, a dict with url/ext_subs *)

None == [t |-> "none", s |-> <<>>, subs |-> <<>>]

Str(s) == [t |-> "str", s |-> s, subs |-> <<>>]

Dict(u, subs) == [t |-> "dict", s |-> u, subs |-> subs]

\* Python truth of such a value (None and "" are false)
Truthy(v) == (v.t = "str" /\ v.s # <<>>) \/ v.t = "dict"

SEP == "@"

SUBSEP == "^"

\* str.split(sep)
RECURSIVE Split(_, _)
Split(s, sep) ==
    IF \E i \in 1..Len(s) : s[i] = sep
    THEN LET i == CHOOSE k \in 1..Len(s) :
                      s[k] = sep /\ \A j \in 1..(k - 1) : s[j] # sep
         IN <<SubSeq(s, 1, i - 1)>> \o Split(SubSeq(s, i + 1, Len(s)), sep)
    ELSE <<s>>

\* sep.join(list)
RECURSIVE Join(_, _)
Join(list, sep) ==
    IF list = <<>> THEN <<>>
    ELSE IF Len(list) = 1 THEN list[1]
    ELSE list[1] \o <<sep>> \o Join(Tail(list), sep)

----------------------------------------------------------------------------
(* The inputs *)

Classes == {"Movie", "Show"}

Items == {[cls |-> "Movie", id |-> "1"], [cls |-> "Movie", id |-> "2"],
          [cls |-> "Show", id |-> "1"]}

\* str(item): a rendering of the class and the ids, different for different items
ItemStr(it) == <<it.cls, it.id>>

Key(it) == it.cls

Providers == {"p1", "p2"}

ProviderSets == {{}, {"p1"}, {"p1", "p2"}}

U == <<"u">>

UAt == <<"u", "@", "v">>

R == <<"r">>

RAt == <<"r", "@", "x", "@", "y">>

Subs1 == << <<"s">> >>

Subs2 == << <<"s">>, <<"t">> >>

\* one entry of a provider's reply; valid: ProviderResult(entry) can be built
Entry(valid, url, pdata, subs) ==
    [valid |-> valid, url |-> url, pdata |-> pdata, ext_subs |-> subs]

Malformed == Entry(FALSE, None, "none", <<>>)

Unusable == Entry(TRUE, None, "none", <<>>)

Direct == Entry(TRUE, Str(U), "none", Subs1)

DirectAt == Entry(TRUE, Str(UAt), "none", <<>>)

NeedResolve == Entry(TRUE, None, "d", Subs1)

NeedResolveE == Entry(TRUE, Str(<<>>), "d", <<>>)

\* a provider's reply to a search: a list of entries, or something else
Reply(entries) == [list |-> TRUE, entries |-> entries]

NotAList == [list |-> FALSE, entries |-> <<>>]

\* the replies each provider gives to the search of a play request
RepliesOf(p) ==
    IF p = "p1"
    THEN {Reply(<<Unusable>>), Reply(<<Malformed, Direct>>), Reply(<<NeedResolve>>)}
    ELSE {NotAList, Reply(<<DirectAt>>), Reply(<<NeedResolveE>>)}

\* the answers a provider gives to "resolve"
Answers == {None, Str(<<>>), Str(R), Str(RAt), Dict(R, Subs2), Dict(R, <<>>)}

\* get_providers_timeout(), get_resolve_timeout()
ProvidersTimeout == 1

ResolveTimeout == 1

----------------------------------------------------------------------------
(* get_providers_results *)

\* the inner loop, were it left at the first entry that cannot be built
RECURSIVE EntryResultsStop(_, _)
EntryResultsStop(p, entries) ==
    IF entries = <<>> THEN <<>>
    ELSE LET e == Head(entries)
         IN IF ~e.valid THEN <<>>
            ELSE IF Truthy(e.url) \/ e.pdata # "none"
            THEN <<[provider |-> p, result |-> e]>> \o EntryResultsStop(p, Tail(entries))
            ELSE EntryResultsStop(p, Tail(entries))

\* the inner loop: the usable results among one provider's entries
RECURSIVE EntryResults(_, _)
EntryResults(p, entries) ==
    IF entries = <<>> THEN <<>>
    ELSE LET e == Head(entries)
             rest == EntryResults(p, Tail(entries))
         IN IF e.valid /\ (Truthy(e.url) \/ e.pdata # "none")
            THEN <<[provider |-> p, result |-> e]>> \o rest
            ELSE rest

\* the outer loop over listener.data, d a sequence of [provider, reply]
RECURSIVE GetProvidersResults(_)
GetProvidersResults(d) ==
    IF d = <<>> THEN <<>>
    ELSE LET h == Head(d)
         IN (IF h.reply.list THEN EntryResults(h.provider, h.reply.entries)
             ELSE <<>>) \o GetProvidersResults(Tail(d))

----------------------------------------------------------------------------
(* check_replay: reading and writing the bookmark *)

\* lines 100-108: err stands for the ValueError of a failed unpacking
ParseBookmark(value) ==
    LET sep_value == Split(value, SEP)
    IN IF value # <<>>
       THEN IF Len(sep_value) > 2
            THEN [err |-> Len(sep_value) # 3, last_id |-> Str(sep_value[1]),
                  path |-> Str(sep_value[2]), saved_ext_subs |-> Str(sep_value[3])]
            ELSE [err |-> Len(sep_value) # 2, last_id |-> Str(sep_value[1]),
                  path |-> IF Len(sep_value) = 2 THEN Str(sep_value[2]) ELSE None,
                  saved_ext_subs |-> None]
       ELSE [err |-> FALSE, last_id |-> None, path |-> None, saved_ext_subs |-> None]

\* line 114: the ext_subs handed to to_list_item on a replay (<<>>: None)
ReplaySubs(b) ==
    IF Truthy(b.saved_ext_subs) THEN Split(b.saved_ext_subs.s, SUBSEP) ELSE <<>>

\* lines 124-130: the property after the wrapped function returned path
WriteBookmark(bm, it, path) ==
    IF path.t = "dict"
    THEN IF path.subs # <<>>
         THEN [bm EXCEPT ![Key(it)] =
                  ItemStr(it) \o <<SEP>> \o path.s \o <<SEP>> \o Join(path.subs, SUBSEP)]
         ELSE [bm EXCEPT ![Key(it)] = ItemStr(it) \o <<SEP>> \o path.s]
    ELSE IF path.t = "str"
         THEN [bm EXCEPT ![Key(it)] = ItemStr(it) \o <<SEP>> \o path.s]
         ELSE bm

\* whether lines 124-130 call set_property
Writes(path) == path.t \in {"dict", "str"}

----------------------------------------------------------------------------
(* The library: the table, the placeholder files *)

MOVIE_TYPE == "movie"

SHOW_TYPE == "show"

MovieIds == {1, 2, 3}

ShowIds == {1, 2}

\* the legal name made of originaltitle and year: two movies can share it
MovieName(id) == IF id = 3 THEN "B" ELSE "A"

ShowName(id) == IF id = 2 THEN "T" ELSE "S"

\* the episodes of a show, as (season, episode): a special, the first episode
\* and a latest episode that is at first not listed, then listed, then aired
Special == <<0, 1>>

First == <<1, 1>>

Latest == <<1, 2>>

Episodes == {Special, First, Latest}

\* the shows whose latest episode comes out while the library is in use
Publishing == {1}

\* lines 101-112: the episodes _add_show writes, with the settings
\* add_special_episodes (specials) and add_unaired_episodes (unaired)
EpisodesOf(id, listed, specials, unaired) ==
    {e \in Episodes :
        /\ e = Latest => listed[id] # "absent"
        /\ (~specials) => e[1] # 0
        /\ (~unaired) => (e = Latest => listed[id] = "aired")}

Row(id, type, path) == [id |-> id, type |-> type, path |-> path]

\* _storage_has_item, _storage_get_path; rs is the table in rowid order
HasItem(rs, id, type) == \E i \in 1..Len(rs) : rs[i].id = id /\ rs[i].type = type

\* _storage_add_item under PRIMARY KEY (id, type): err stands for the
\* IntegrityError of a second row with the key
AddItem(rs, id, type, path) ==
    IF HasItem(rs, id, type) THEN [err |-> TRUE, rows |-> rs]
    ELSE [err |-> FALSE, rows |-> Append(rs, Row(id, type, path))]

\* the state the library calls work on; writes and scans record what a call did
Lib(rs, mf, sf, wr, sc) ==
    [rows |-> rs, mfiles |-> mf, sfiles |-> sf, writes |-> wr, scans |-> sc]

\* _add_movie: the placeholder of movie id under name
WriteMovie(L, id, name, override_if_exists) ==
    IF override_if_exists \/ L.mfiles[name] = 0
    THEN [L EXCEPT !.mfiles[name] = id,
                   !.writes = @ \cup {<<MOVIE_TYPE, name, <<0, 0>>>>}]
    ELSE L

\* _add_show, were an episode file written whether or not it exists
WriteShowAlways(L, id, name, eps, override_if_exists) ==
    [L EXCEPT !.sfiles = [k \in DOMAIN L.sfiles |->
                             IF k[1] = name /\ k[2] \in eps THEN id
                             ELSE L.sfiles[k]],
              !.writes = @ \cup {<<SHOW_TYPE, name, e>> : e \in eps}]

\* _add_show: the placeholders of the episodes eps of show id under name
WriteShow(L, id, name, eps, override_if_exists) ==
    LET todo == {e \in eps : override_if_exists \/ L.sfiles[<<name, e>>] = 0}
    IN [L EXCEPT !.sfiles = [k \in DOMAIN L.sfiles |->
                                IF k[1] = name /\ k[2] \in todo THEN id
                                ELSE L.sfiles[k]],
                 !.writes = @ \cup {<<SHOW_TYPE, name, e>> : e \in todo}]

\* update_movies, update_shows, when update_kodi_library() is set
Scan(L, upd, what) == IF upd THEN [L EXCEPT !.scans = Append(@, what)] ELSE L

\* add_movie, were the item looked up under the other type
AddMovieOtherType(L, id, upd) ==
    IF HasItem(L.rows, id, SHOW_TYPE)
    THEN [lib |-> L, result |-> "False"]
    ELSE LET name == MovieName(id)
             W == WriteMovie(L, id, name, TRUE)
             ins == AddItem(W.rows, id, MOVIE_TYPE, name)
         IN IF ins.err THEN [lib |-> W, result |-> "raised"]
            ELSE [lib |-> Scan([W EXCEPT !.rows = ins.rows], upd, "movies"),
                  result |-> "True"]

\* add_movie: the library after the call, and what it returned
AddMovie(L, id, upd) ==
    IF HasItem(L.rows, id, MOVIE_TYPE)
    THEN [lib |-> L, result |-> "False"]
    ELSE LET name == MovieName(id)
             W == WriteMovie(L, id, name, TRUE)
             ins == AddItem(W.rows, id, MOVIE_TYPE, name)
         IN IF ins.err THEN [lib |-> W, result |-> "raised"]
            ELSE [lib |-> Scan([W EXCEPT !.rows = ins.rows], upd, "movies"),
                  result |-> "True"]

\* add_show
AddShow(L, id, eps, upd) ==
    IF HasItem(L.rows, id, SHOW_TYPE)
    THEN [lib |-> L, result |-> "False"]
    ELSE LET name == ShowName(id)
             W == WriteShow(L, id, name, eps, TRUE)
             ins == AddItem(W.rows, id, SHOW_TYPE, name)
         IN IF ins.err THEN [lib |-> W, result |-> "raised"]
            ELSE [lib |-> Scan([W EXCEPT !.rows = ins.rows], upd, "shows"),
                  result |-> "True"]

\* rebuild lines 140-146 over the entries rs
RECURSIVE RebuildRows(_, _, _)
RebuildRows(L, rs, eps) ==
    IF rs = <<>> THEN L
    ELSE LET r == Head(rs)
         IN RebuildRows(IF r.type = MOVIE_TYPE
                        THEN WriteMovie(L, r.id, r.path, TRUE)
                        ELSE WriteShow(L, r.id, r.path, eps[r.id], TRUE),
                        Tail(rs), eps)

\* rebuild
Rebuild(L, eps, upd) == Scan(Scan(RebuildRows(L, L.rows, eps), upd, "movies"), upd, "shows")

\* update_library lines 153-155 over the entries rs
RECURSIVE UpdateRows(_, _, _)
UpdateRows(L, rs, eps) ==
    IF rs = <<>> THEN L
    ELSE LET r == Head(rs)
         IN UpdateRows(IF r.type = SHOW_TYPE
                       THEN WriteShow(L, r.id, r.path, eps[r.id], FALSE)
                       ELSE L,
                       Tail(rs), eps)

\* update_library
UpdateLibrary(L, eps, upd) == Scan(UpdateRows(L, L.rows, eps), upd, "shows")

\* discover_contents lines 163-165: the movies of one page
RECURSIVE DiscoverMovies(_, _, _)
DiscoverMovies(L, ms, upd) ==
    IF ms = <<>> THEN [lib |-> L, result |-> "None"]
    ELSE LET a == AddMovie(L, Head(ms), upd)
         IN IF a.result = "raised" THEN a
            ELSE DiscoverMovies(a.lib, Tail(ms), upd)

\* discover_contents lines 166-168: the shows of one page
RECURSIVE DiscoverShows(_, _, _, _)
DiscoverShows(L, ss, eps, upd) ==
    IF ss = <<>> THEN [lib |-> L, result |-> "None"]
    ELSE LET a == AddShow(L, Head(ss), eps[Head(ss)], upd)
         IN IF a.result = "raised" THEN a
            ELSE DiscoverShows(a.lib, Tail(ss), eps, upd)

\* discover_contents lines 162-168 over the pages
RECURSIVE DiscoverPages(_, _, _, _)
DiscoverPages(L, pages, eps, upd) ==
    IF pages = <<>> THEN [lib |-> L, result |-> "None"]
    ELSE LET m == DiscoverMovies(L, Head(pages).movies, upd)
         IN IF m.result = "raised" THEN m
            ELSE LET sh == DiscoverShows(m.lib, Head(pages).shows, eps, upd)
                 IN IF sh.result = "raised" THEN sh
                    ELSE DiscoverPages(sh.lib, Tail(pages), eps, upd)

\* discover_contents
DiscoverContents(L, pages, eps, upd) ==
    LET d == DiscoverPages(L, pages, eps, upd)
    IN IF d.result = "raised" THEN d
       ELSE [lib |-> Scan(Scan(d.lib, upd, "movies"), upd, "shows"), result |-> "None"]

----------------------------------------------------------------------------
(* The library calls *)

\* what Discover returns for a page: its movies and its shows
Page(ms, ss) == [movies |-> ms, shows |-> ss]

Pages == {Page(<<1, 2>>, <<1>>), Page(<<3>>, <<2>>)}

MaxPages == 1

PageLists == UNION {[1..n -> Pages] : n \in 0..MaxPages}

NoCall == [op |-> "none", id |-> 0, result |-> "None", had |-> FALSE,
           changed |-> FALSE, writes |-> {}, scans |-> <<>>]

LibInit ==
    /\ rows = <<>>
    /\ mfiles = [n \in {"A", "B"} |-> 0]
    /\ sfiles = [k \in {"S", "T"} \X Episodes |-> 0]
    /\ tmdb = [id \in ShowIds |-> "absent"]
    /\ last = NoCall

\* the library as a call finds it
Cur == Lib(rows, mfiles, sfiles, {}, <<>>)

TypeOf(op) ==
    IF op = "add_movie" THEN MOVIE_TYPE ELSE IF op = "add_show" THEN SHOW_TYPE ELSE ""

\* the library as a call leaves it; last records the call, whether the store
\* held the item before it, and whether it changed the store or the files
Done(op, id, out) ==
    /\ rows' = out.lib.rows
    /\ mfiles' = out.lib.mfiles
    /\ sfiles' = out.lib.sfiles
    /\ last' = [op |-> op, id |-> id, result |-> out.result,
                had |-> \E i \in 1..Len(rows) :
                           rows[i].id = id /\ rows[i].type = TypeOf(op),
                changed |-> <<out.lib.rows, out.lib.mfiles, out.lib.sfiles>>
                               # <<rows, mfiles, sfiles>>,
                writes |-> out.lib.writes, scans |-> out.lib.scans]
    /\ UNCHANGED <<tmdb, pvars>>

\* the episodes _add_show writes for each show, with the settings of this Library
Eps(specials, unaired) ==
    [id \in ShowIds |-> EpisodesOf(id, tmdb, specials, unaired)]

DoAddMovie(id, upd) == Done("add_movie", id, AddMovie(Cur, id, upd))

DoAddShow(id, specials, unaired, upd) ==
    Done("add_show", id, AddShow(Cur, id, Eps(specials, unaired)[id], upd))

DoRebuild(specials, unaired, upd) ==
    Done("rebuild", 0, [lib |-> Rebuild(Cur, Eps(specials, unaired), upd),
                        result |-> "None"])

DoUpdateLibrary(specials, unaired, upd) ==
    Done("update_library", 0,
         [lib |-> UpdateLibrary(Cur, Eps(specials, unaired), upd), result |-> "None"])

DoDiscoverContents(pages, specials, unaired, upd) ==
    Done("discover_contents", Len(pages),
         DiscoverContents(Cur, pages, Eps(specials, unaired), upd))

\* the metadata source lists, then airs, the latest episode of a show
Publish(id) ==
    /\ id \in Publishing
    /\ tmdb[id] # "aired"
    /\ tmdb' = [tmdb EXCEPT ![id] = IF @ = "absent" THEN "unaired" ELSE "aired"]
    /\ UNCHANGED <<rows, mfiles, sfiles, last, pvars>>

----------------------------------------------------------------------------
(* The play request: the wrapper of check_replay around play *)

NoItem == [cls |-> "", id |-> ""]

\* nothing played yet: id is str(item) of the item the bookmark was written
\* for, saved the url handed to set_property, path and subs the path and the
\* ext_subs the play resolved with
NoPlay == [id |-> <<>>, saved |-> None, path |-> None, subs |-> <<>>]

Init ==
    /\ pc = "idle"
    /\ item = NoItem
    /\ saving = FALSE
    /\ providers = {}
    /\ data = <<>>
    /\ clock = 0
    /\ results = <<>>
    /\ auto = "unread"
    /\ chosen = 0
    /\ resolved = <<>>
    /\ notes = <<>>
    /\ dialogs = {}
    /\ sent = {}
    /\ called = FALSE
    /\ ret = None
    /\ bookmark = [c \in Classes |-> <<>>]
    /\ played = [c \in Classes |-> NoPlay]
    /\ LibInit

\* the two notifications, were the branches of lines 175-178 exchanged
NoticeSwapped(none) == IF none THEN 30112 ELSE 30146

\* play lines 175-178: the notification of an empty outcome; none: results is
\* None (NoProvidersError), and else results is empty
Notice(none) == IF none THEN 30146 ELSE 30112

\* one call of setResolvedUrl
Call(ok, path, subs) == [ok |-> ok, path |-> path, subs |-> subs]

\* the return, were the bookmark written without a look at save_last_result
ReturnSaved(it, save, path, subs, tl) ==
    IF Truthy(path) /\ path.t # "str" /\ ~tl
    THEN /\ pc' = "raised"
         /\ UNCHANGED <<resolved, ret, bookmark, played>>
    ELSE /\ pc' = "done"
         /\ resolved' = Append(resolved, IF Truthy(path) THEN Call(TRUE, path, subs)
                                                        ELSE Call(FALSE, None, <<>>))
         /\ ret' = path
         /\ bookmark' = WriteBookmark(bookmark, it, path)
         /\ UNCHANGED played

\* play lines 180-186, then the wrapper's lines 116-131 (line 86 when the
\* setting is off). path: play's path, subs: its ext_subs, tl: whether
\* to_list_item takes a path that is no str
Return(it, save, path, subs, tl) ==
    IF Truthy(path) /\ path.t # "str" /\ ~tl
    THEN /\ pc' = "raised"
         /\ UNCHANGED <<resolved, ret, bookmark, played>>
    ELSE /\ pc' = "done"
         /\ resolved' = Append(resolved, IF Truthy(path) THEN Call(TRUE, path, subs)
                                                        ELSE Call(FALSE, None, <<>>))
         /\ ret' = path
         /\ bookmark' = IF save THEN WriteBookmark(bookmark, it, path) ELSE bookmark
         /\ played' = IF save /\ Writes(path)
                      THEN [played EXCEPT ![Key(it)] =
                               [id |-> ItemStr(it),
                                saved |-> Str(path.s),
                                path |-> IF Truthy(path) THEN path ELSE None,
                                subs |-> IF Truthy(path) THEN subs ELSE <<>>]]
                      ELSE played

\* play lines 138-141 and 175-176: the wrapped function is entered; with no
\* provider run_providers_method raises NoProvidersError and play ends at once
CallPlay(it, save, provs) ==
    /\ called' = TRUE
    /\ providers' = provs
    /\ IF provs = {}
       THEN /\ notes' = Append(notes, Notice(TRUE))
            /\ sent' = sent
            /\ pc' = "done"
            /\ resolved' = Append(resolved, Call(FALSE, None, <<>>))
            /\ ret' = None
            /\ UNCHANGED <<bookmark, played>>
       ELSE /\ notes' = notes
            /\ sent' = sent \cup {"search"}
            /\ pc' = "searching"
            /\ UNCHANGED <<resolved, ret, bookmark, played>>

\* wrapper lines 84-113: a request for item it arrives
StartPlay(it, save, provs) ==
    /\ pc \in {"idle", "done", "raised"}
    /\ item' = it
    /\ saving' = save
    /\ data' = <<>>
    /\ clock' = 0
    /\ results' = <<>>
    /\ auto' = "unread"
    /\ chosen' = 0
    /\ UNCHANGED lvars
    /\ LET b == ParseBookmark(bookmark[Key(it)])
       IN IF save /\ b.err
          THEN /\ pc' = "raised"
               /\ dialogs' = {}
               /\ called' = FALSE
               /\ providers' = {}
               /\ resolved' = <<>>
               /\ notes' = <<>>
               /\ sent' = {}
               /\ ret' = None
               /\ UNCHANGED <<bookmark, played>>
          ELSE IF save /\ b.last_id = Str(ItemStr(it))
          THEN /\ pc' = "prompt"
               /\ dialogs' = {"replay"}
               /\ called' = FALSE
               /\ providers' = {}
               /\ resolved' = <<>>
               /\ notes' = <<>>
               /\ sent' = {}
               /\ ret' = None
               /\ UNCHANGED <<bookmark, played>>
          ELSE /\ dialogs' = {}
               /\ called' = TRUE
               /\ providers' = provs
               /\ IF provs = {}
                  THEN /\ notes' = <<Notice(TRUE)>>
                       /\ sent' = {}
                       /\ pc' = "done"
                       /\ resolved' = <<Call(FALSE, None, <<>>)>>
                       /\ ret' = None
                       /\ UNCHANGED <<bookmark, played>>
                  ELSE /\ notes' = <<>>
                       /\ sent' = {"search"}
                       /\ pc' = "searching"
                       /\ resolved' = <<>>
                       /\ ret' = None
                       /\ UNCHANGED <<bookmark, played>>

\* wrapper lines 113-116: the user answers the replay prompt
PromptAnswer(yes, provs) ==
    /\ pc = "prompt"
    /\ UNCHANGED <<item, saving, dialogs, data, clock, results, auto,
                   chosen, lvars>>
    /\ LET b == ParseBookmark(bookmark[Key(item)])
       IN IF yes
          THEN /\ pc' = "done"
               /\ resolved' = Append(resolved, Call(TRUE, b.path, ReplaySubs(b)))
               /\ ret' = b.path
               /\ UNCHANGED <<providers, notes, sent, called, bookmark, played>>
          ELSE CallPlay(item, saving, provs)

----------------------------------------------------------------------------
(* The listener: waiting for the providers *)

Replied == {data[i].provider : i \in 1..Len(data)}

\* the timeout of the listener that is waiting
Timeout == IF pc = "searching" THEN ProvidersTimeout ELSE ResolveTimeout

\* a provider's reply to the broadcast arrives while the listener waits
ProviderReply(p, reply) ==
    /\ pc = "searching"
    /\ clock < ProvidersTimeout
    /\ p \in providers \ Replied
    /\ data' = Append(data, [provider |-> p, reply |-> reply])
    /\ UNCHANGED <<pc, item, saving, providers, clock, results, auto, chosen,
                   resolved, notes, dialogs, sent, called, ret, bookmark,
                   played, lvars>>

\* time passes while a listener waits
Tick ==
    /\ pc \in {"searching", "resolving"}
    /\ clock < Timeout
    /\ pc = "searching" => Replied # providers
    /\ clock' = clock + 1
    /\ UNCHANGED <<pc, item, saving, providers, data, results, auto, chosen,
                   resolved, notes, dialogs, sent, called, ret, bookmark,
                   played, lvars>>

----------------------------------------------------------------------------
(* play, after the broadcast *)

\* play lines 159-174, sel an index into res: the result is played at once
\* when it has a url, and else the provider is asked to resolve it
Choose(res, sel) ==
    LET r == res[sel].result
    IN /\ chosen' = sel
       /\ clock' = 0
       /\ IF Truthy(r.url)
          THEN /\ sent' = sent
               /\ Return(item, saving, r.url, r.ext_subs, TRUE)
          ELSE /\ sent' = sent \cup {"resolve"}
               /\ pc' = "resolving"
               /\ UNCHANGED <<resolved, ret, bookmark, played>>

\* play lines 139-157 and 177-178: the listener stops waiting (every provider
\* replied, or the timeout has elapsed) and play goes on with the results;
\* choose: auto_choose_media()
SearchDone(choose) ==
    /\ pc = "searching"
    /\ Replied = providers \/ clock = ProvidersTimeout
    /\ LET res == GetProvidersResults(data)
       IN /\ results' = res
          /\ data' = <<>>
          /\ IF res = <<>>
             THEN /\ notes' = Append(notes, Notice(FALSE))
                  /\ Return(item, saving, None, <<>>, TRUE)
                  /\ clock' = 0
                  /\ UNCHANGED <<auto, chosen, dialogs, sent>>
             ELSE IF choose
             THEN /\ auto' = "on"
                  /\ Choose(res, 1)
                  /\ UNCHANGED <<notes, dialogs>>
             ELSE /\ auto' = "off"
                  /\ pc' = "select"
                  /\ dialogs' = dialogs \cup {"select"}
                  /\ clock' = 0
                  /\ UNCHANGED <<chosen, notes, sent, resolved, ret, bookmark, played>>
    /\ UNCHANGED <<item, saving, providers, called, lvars>>

\* play lines 156-159: the selection dialog closes; selected = -1: cancelled
SelectAnswer(selected) ==
    /\ pc = "select"
    /\ selected \in -1..(Len(results) - 1)
    /\ IF selected >= 0
       THEN Choose(results, selected + 1)
       ELSE /\ Return(item, saving, None, <<>>, TRUE)
            /\ UNCHANGED <<chosen, sent, clock>>
    /\ UNCHANGED <<item, saving, providers, data, results, auto, notes, dialogs,
                   called, lvars>>

\* play lines 170-171, run_provider_method lines 58-59: the provider answers
\* the resolve request in time
ResolveReply(answer, tl) ==
    /\ pc = "resolving"
    /\ clock < ResolveTimeout
    /\ Return(item, saving, answer, results[chosen].result.ext_subs, tl)
    /\ UNCHANGED <<item, saving, providers, data, clock, results, auto, chosen,
                   notes, dialogs, sent, called, lvars>>

\* the resolve request, were it sent again when no answer came in time
ResolveRetried ==
    /\ pc = "resolving"
    /\ clock = ResolveTimeout
    /\ clock' = 0
    /\ UNCHANGED <<pc, item, saving, providers, data, results, auto, chosen,
                   resolved, notes, dialogs, sent, called, ret, bookmark, played,
                   lvars>>

\* run_provider_method lines 60-61, play lines 172-174: no answer in time
ResolveTimedOut ==
    /\ pc = "resolving"
    /\ clock = ResolveTimeout
    /\ notes' = Append(notes, 30129)
    /\ Return(item, saving, results[chosen].result.url,
              results[chosen].result.ext_subs, TRUE)
    /\ UNCHANGED <<item, saving, providers, data, clock, results, auto, chosen,
                   dialogs, sent, called, lvars>>

Next ==
    \/ \E it \in Items, save \in BOOLEAN, provs \in ProviderSets :
          StartPlay(it, save, provs)
    \/ \E yes \in BOOLEAN, provs \in ProviderSets : PromptAnswer(yes, provs)
    \/ \E p \in Providers : \E reply \in RepliesOf(p) : ProviderReply(p, reply)
    \/ Tick
    \/ \E choose \in BOOLEAN : SearchDone(choose)
    \/ \E selected \in -1..3 : SelectAnswer(selected)
    \/ \E answer \in Answers, tl \in BOOLEAN : ResolveReply(answer, tl)
    \/ ResolveTimedOut

Spec == Init /\ [][Next]_vars

\* the scheduling a request relies on: time passes while a listener waits, a
\* listener that may stop waiting does, and the user answers an open dialog
Fairness ==
    /\ WF_vars(Tick)
    /\ WF_vars(\E choose \in BOOLEAN : SearchDone(choose))
    /\ WF_vars(ResolveTimedOut)
    /\ WF_vars(\E selected \in -1..3 : SelectAnswer(selected))
    /\ WF_vars(\E yes \in BOOLEAN, provs \in ProviderSets : PromptAnswer(yes, provs))

FairSpec == Spec /\ Fairness

LibNext ==
    \/ \E id \in MovieIds, upd \in BOOLEAN : DoAddMovie(id, upd)
    \/ \E id \in ShowIds, specials, unaired, upd \in BOOLEAN :
          DoAddShow(id, specials, unaired, upd)
    \/ \E specials, unaired, upd \in BOOLEAN : DoRebuild(specials, unaired, upd)
    \/ \E specials, unaired, upd \in BOOLEAN : DoUpdateLibrary(specials, unaired, upd)
    \/ \E pages \in PageLists, specials, unaired, upd \in BOOLEAN :
          DoDiscoverContents(pages, specials, unaired, upd)
    \/ \E id \in ShowIds : Publish(id)

LibSpec == Init /\ [][LibNext]_vars

\* the calls that write the store and the files themselves: discover_contents
\* reaches both through add_movie and add_show only
SyncNext ==
    \/ \E id \in MovieIds, upd \in BOOLEAN : DoAddMovie(id, upd)
    \/ \E id \in ShowIds, specials, unaired, upd \in BOOLEAN :
          DoAddShow(id, specials, unaired, upd)
    \/ \E specials, unaired, upd \in BOOLEAN : DoRebuild(specials, unaired, upd)
    \/ \E specials, unaired, upd \in BOOLEAN : DoUpdateLibrary(specials, unaired, upd)
    \/ \E id \in ShowIds : Publish(id)

SyncSpec == Init /\ [][SyncNext]_vars

----------------------------------------------------------------------------
(* Properties of the play request *)

\* the request returned: the wrapper came to its return statement
Returned == pc = "done"

\* the request ended in a confirmed replay: prompt shown, wrapped function not called
Replayed == Returned /\ "replay" \in dialogs /\ ~called

Failure == Call(FALSE, None, <<>>)

\* C1: every call of play that returns has called setResolvedUrl exactly once:
\* with success=True and the path when a non-empty path was obtained (from the
\* result's url, the resolve answer or the bookmark), with success=False otherwise.
C1_ResolvedOnce ==
    Returned =>
        /\ Len(resolved) = 1
        /\ resolved[1].ok = Truthy(ret)
        /\ Truthy(ret) => resolved[1].path = ret

\* C3: when the chosen result has no url and the resolve request times out, the
\* user is notified (30129), the handle is resolved with success=False, play
\* returns no path and no bookmark is written for the item.
C3_ResolveTimeoutHandled ==
    (Returned /\ chosen # 0 /\ "resolve" \in sent /\ clock = ResolveTimeout) =>
        /\ notes = <<30129>>
        /\ resolved = <<Failure>>
        /\ ~Truthy(ret)
        /\ played[Key(item)].id = ItemStr(item) => Truthy(played[Key(item)].path)

\* C4: with save_last_result enabled, a bookmark of the same item and a
\* confirmed prompt resolve the request with the saved path and contact no
\* provider; in every other case the wrapped function is called.
C4_ReplayOrCall ==
    (saving /\ pc \in {"done", "raised"}) =>
        /\ Replayed =>
              /\ played[Key(item)].id = ItemStr(item)
              /\ resolved = <<Call(TRUE, played[Key(item)].saved, resolved[1].subs)>>
              /\ sent = {}
        /\ ~Replayed => called

\* C5: the bookmark round-trips: a confirmed replay after a successful play of
\* the item resolves with the same url and the same external subtitles as
\* that play.
C5_RoundTrip ==
    (Replayed /\ Truthy(played[Key(item)].path)) =>
        /\ resolved[1].path = played[Key(item)].path
        /\ resolved[1].subs = played[Key(item)].subs

\* C10: a play that ends without a path leaves the bookmark unchanged, and so
\* does a confirmed replay; the bookmark is written only after the wrapped
\* function returned a path: every step that changes the property is the
\* return of a call of the wrapped function with a path.
C10_BookmarkKept ==
    [][bookmark' # bookmark => (pc' = "done" /\ called' /\ Truthy(ret'))]_vars

\* C11: with save_last_result disabled the wrapper is transparent: no step of
\* the request changes the bookmark property, the request never shows the
\* replay prompt and never fails on the stored value, the wrapped function is
\* called, and the request returns the path the wrapped function resolved
\* the handle with.
C11_Transparent ==
    /\ [][~saving' => bookmark' = bookmark]_vars
    /\ []((~saving /\ pc # "idle") =>
             /\ pc # "prompt"
             /\ "replay" \notin dialogs
             /\ called
             /\ Returned =>
                   /\ Len(resolved) = 1
                   /\ resolved[1].ok = Truthy(ret)
                   /\ Truthy(ret) => resolved[1].path = ret)

\* a request with the setting off returned a path while the property held a
\* bookmark of the same item with another path, written with the setting on
C11_Witness ==
    /\ ~saving
    /\ Returned
    /\ Truthy(ret)
    /\ bookmark[Key(item)] # <<>>
    /\ played[Key(item)].id = ItemStr(item)
    /\ played[Key(item)].path # ret
    /\ bookmark[Key(item)] = ItemStr(item) \o <<SEP>> \o played[Key(item)].saved.s

\* C12: one bookmark per item class: a step changes the bookmark of the class
\* of the requested item only; a successful play of an item with the setting on
\* leaves the bookmark of that item in place of the previous one; and the
\* replay prompt is shown only for the item of its class that was played last
\* with the setting on.
C12_OnePerClass ==
    /\ [][\A c \in Classes : bookmark'[c] # bookmark[c] => c = Key(item')]_vars
    /\ []((saving /\ Returned /\ called /\ Truthy(ret)) =>
             /\ Split(bookmark[Key(item)], SEP)[1] = ItemStr(item)
             /\ played[Key(item)].id = ItemStr(item))
    /\ [](pc = "prompt" =>
             /\ played[Key(item)].id = ItemStr(item)
             /\ Truthy(played[Key(item)].path))

\* the entries of the replies d that make a result: at (j, k) when reply j is
\* a list whose entry k could be built and has a url or provider_data
UsableAt(d) ==
    UNION {{<<j, k>> : k \in {n \in 1..Len(d[j].reply.entries) :
                                /\ d[j].reply.list
                                /\ d[j].reply.entries[n].valid
                                /\ \/ Truthy(d[j].reply.entries[n].url)
                                   \/ d[j].reply.entries[n].pdata # "none"}} :
              j \in 1..Len(d)}

PairAt(d, pos) ==
    [provider |-> d[pos[1]].provider, result |-> d[pos[1]].reply.entries[pos[2]]]

\* C8: when the broadcast ends, get_providers_results returns exactly the pairs
\* (provider, result) of the providers that replied in time with a list, for
\* the entries that could be built and have a url or provider_data: nothing
\* else, none of them dropped, and no error for the other replies and entries.
C8_Results ==
    [][(pc = "searching" /\ pc' # "searching") =>
          /\ pc' # "raised"
          /\ Len(results') = Cardinality(UsableAt(data))
          /\ \A pos \in UsableAt(data) :
                \E i \in 1..Len(results') : results'[i] = PairAt(data, pos)
          /\ \A i \in 1..Len(results') :
                \E pos \in UsableAt(data) : results'[i] = PairAt(data, pos)]_vars

\* the dialog lists the one valid result of a reply that also held a malformed
\* entry, while the other provider replied with something that is no list
C8_Witness ==
    /\ pc = "select"
    /\ providers = {"p1", "p2"}
    /\ results = <<[provider |-> "p1", result |-> Direct]>>

\* C9: play tells the two empty outcomes apart: no provider gives notification
\* 30146, providers without a usable result give 30112, and both show no
\* selection dialog, send no resolve request and resolve with success=False;
\* with auto_choose_media on, the first result is chosen without a dialog.
C9_EmptyOutcomes ==
    /\ (Returned /\ called /\ providers = {}) =>
          /\ notes = <<30146>>
          /\ "select" \notin dialogs
          /\ sent = {}
          /\ resolved = <<Failure>>
    /\ (Returned /\ called /\ providers # {} /\ results = <<>>) =>
          /\ notes = <<30112>>
          /\ "select" \notin dialogs
          /\ "resolve" \notin sent
          /\ resolved = <<Failure>>
    /\ auto = "on" =>
          /\ results # <<>>
          /\ chosen = 1
          /\ "select" \notin dialogs
          /\ (Returned /\ Truthy(results[1].result.url)) =>
                resolved = <<Call(TRUE, results[1].result.url,
                                  results[1].result.ext_subs)>>

\* the providers replied, none with a usable result
C9_Witness ==
    /\ Returned
    /\ called
    /\ providers = {"p1", "p2"}
    /\ results = <<>>
    /\ notes = <<30112>>

\* the request is under way / has ended (returned or raised)
InRequest == pc \in {"prompt", "searching", "select", "resolving"}

Finished == pc \in {"done", "raised"}

----------------------------------------------------------------------------
(* Properties of the library *)

AddCall == last.op \in {"add_movie", "add_show"}

\* C6: add_movie and add_show add an item at most once: the call returns True
\* exactly when the store held no row with that id and type, and then the row
\* (id, type, name) is in the store; else it returns False and changes nothing,
\* writes no placeholder and requests no scan. The store never holds two rows
\* with one (id, type).
C6_AddOnce ==
    /\ AddCall =>
          /\ last.result = (IF last.had THEN "False" ELSE "True")
          /\ last.result = "True" =>
                \E i \in 1..Len(rows) :
                    rows[i] = Row(last.id, TypeOf(last.op),
                                  IF last.op = "add_movie" THEN MovieName(last.id)
                                  ELSE ShowName(last.id))
          /\ last.result = "False" =>
                ~last.changed /\ last.writes = {} /\ last.scans = <<>>
    /\ \A i, j \in 1..Len(rows) :
          (rows[i].id = rows[j].id /\ rows[i].type = rows[j].type) => i = j

\* a second add_movie of a stored movie returned False, with a show of the
\* same id stored beside the movie
C6_Witness ==
    /\ last.op = "add_movie"
    /\ last.result = "False"
    /\ \E i, j \in 1..Len(rows) :
          /\ rows[i] = Row(last.id, MOVIE_TYPE, MovieName(last.id))
          /\ rows[j] = Row(last.id, SHOW_TYPE, ShowName(last.id))

\* C7: every stored movie is a playable library entry for that movie: for every
\* movie row (id, name) the file Movies/<name>/<name>.strm exists and holds the
\* play_movie url of that id.
C7_MoviePlayable ==
    \A i \in 1..Len(rows) :
        rows[i].type = MOVIE_TYPE => mfiles[rows[i].path] = rows[i].id

\* the step is a call of op (a step of Publish changes tmdb and no call does)
CallOf(op) == tmdb' = tmdb /\ last'.op = op

\* the episode files of the stored shows that a Library with the settings
\* add_special_episodes (specials) and add_unaired_episodes (unaired) generates
ShowFiles(specials, unaired) ==
    UNION {{<<SHOW_TYPE, rows[i].path, e>> :
               e \in EpisodesOf(rows[i].id, tmdb, specials, unaired)} :
           i \in {n \in 1..Len(rows) : rows[n].type = SHOW_TYPE}}

\* the placeholders of the stored movies
MovieFiles ==
    {<<MOVIE_TYPE, rows[i].path, <<0, 0>>>> :
        i \in {n \in 1..Len(rows) : rows[n].type = MOVIE_TYPE}}

\* the file w holds a placeholder after the step
Present(w) == sfiles'[<<w[2], w[3]>>] # 0

\* the file w held a placeholder before the step
Existed(w) == sfiles[<<w[2], w[3]>>] # 0

\* C13: update_library only adds: it writes no episode file that exists and
\* leaves each as it is, it creates the missing episode files of every stored
\* show (those its Library generates, for the settings of that Library), it
\* writes no movie placeholder and leaves the rows as they are; rebuild writes
\* the placeholder of every stored movie and the episode files of every stored
\* show again, and leaves the rows as they are.
C13_UpdateAddsRebuildRewrites ==
    [][/\ CallOf("update_library") =>
             /\ rows' = rows
             /\ mfiles' = mfiles
             /\ \A k \in DOMAIN sfiles : sfiles[k] # 0 => sfiles'[k] = sfiles[k]
             /\ \E specials, unaired \in BOOLEAN :
                   /\ \A w \in ShowFiles(specials, unaired) : Present(w)
                   /\ last'.writes =
                         {w \in ShowFiles(specials, unaired) : ~Existed(w)}
       /\ CallOf("rebuild") =>
             /\ rows' = rows
             /\ \E specials, unaired \in BOOLEAN :
                   last'.writes = MovieFiles \cup ShowFiles(specials, unaired)]_vars

\* update_library has just created the latest episode of a stored show and
\* left the files of its other episodes and of a stored movie alone
C13_Witness ==
    /\ last.op = "update_library"
    /\ last.writes = {<<SHOW_TYPE, "S", Latest>>}
    /\ sfiles[<<"S", First>>] = 1
    /\ sfiles[<<"S", Special>>] = 1
    /\ \E i \in 1..Len(rows) : rows[i].type = MOVIE_TYPE

====
